---------------------------- MODULE Spec2Model ----------------------------
(***************************************************************************)
(* Model of the object-storage-api services: AttachmentService and        *)
(* ImageService orchestrating a MongoDB collection (the document store)    *)
(* and an S3 bucket (the object store).                                    *)
(*                                                                         *)
(* Every request is a process that walks through the calls its service    *)
(* method makes, one step per call to an external store.  Spec serves the  *)
(* requests one at a time; SpecCreates serves creates concurrently.        *)
(***************************************************************************)
EXTENDS Integers, Sequences, FiniteSets, TLC

(***************************************************************************)
(* Bounds of the model.                                                    *)
(***************************************************************************)
MaxIds == 2                  \* ObjectId() values generated in one behaviour
attachment_upload_limit == 2 \* config.attachment.upload_limit
image_upload_limit == 2      \* config.image.upload_limit

Procs == {1, 2}

None == "None"

(***************************************************************************)
(* Identifiers.  An entity id arrives as a string; bson accepts it or not. *)
(***************************************************************************)
EntityIds == {"e1", "e2"}
InvalidIds == {"invalid-id"}
AbsentIds == {"absent-id"}      \* well formed, never generated

\* str(ObjectId()): the n-th identifier the process generates
NewObjectId(n) == "oid" \o ToString(n)
GeneratedIds == {NewObjectId(n) : n \in 1..MaxIds}
\* the identifier of a record stored before the behaviour starts
StoredId == NewObjectId(0)

\* ObjectId.is_valid
ObjectIdIsValid(value) == value \in EntityIds \cup GeneratedIds \cup AbsentIds \cup {StoredId}

(***************************************************************************)
(* File names, their suffix and the type mimetypes infers from it.         *)
(***************************************************************************)
\* the names of the attachments posted, and the names a patch may carry
AttachmentFileNames == {"report.txt", "plan.pdf", "tool.exe"}
AttachmentPatchFileNames == {"report.txt", "lab notes.TXT", "plan.pdf"}
ImagePatchFileNames == {"photo.png", "logo.png", "scan.jpeg"}

Suffix(file_name) ==
    CASE file_name = "report.txt"    -> ".txt"
      [] file_name = "lab notes.TXT" -> ".TXT"
      [] file_name = "plan.pdf"      -> ".pdf"
      [] file_name = "tool.exe"      -> ".exe"
      [] file_name = "photo.png"     -> ".png"
      [] file_name = "logo.png"      -> ".png"
      [] file_name = "scan.jpeg"     -> ".jpeg"
      [] file_name = "test.gif"      -> ".gif"
      [] OTHER                       -> ""

Lower(ext) == IF ext = ".TXT" THEN ".txt" ELSE ext

\* mimetypes.guess_type(name)[0]: decided by the lower-cased suffix
GuessType(file_name) ==
    LET ext == Lower(Suffix(file_name))
    IN  CASE ext = ".txt"  -> "text/plain"
          [] ext = ".pdf"  -> "application/pdf"
          [] ext = ".png"  -> "image/png"
          [] ext = ".jpeg" -> "image/jpeg"
          [] ext = ".gif"  -> "image/gif"
          [] ext = ".exe"  -> "application/x-msdos-program"
          [] OTHER         -> None

attachment_allowed_file_extensions == {".txt", ".pdf"}

\* ImageConfig.allowed_file_extensions
image_allowed_file_extensions == {".png", ".jpeg"}

\* services.utils.generate_code: spaces replaced by hyphens
generate_code(file_name) ==
    CASE file_name = "lab notes.TXT" -> "lab-notes.TXT"
      [] OTHER                       -> file_name

(***************************************************************************)
(* Object keys.                                                            *)
(***************************************************************************)
AttachmentObjectKey(entity_id, attachment_id) == <<"attachments", entity_id, attachment_id>>
ImageObjectKey(entity_id, image_id) == <<"images", entity_id, image_id>>

(***************************************************************************)
(* State.                                                                  *)
(***************************************************************************)
VARIABLES
    attachments_collection,  \* the rows of database.attachments
    images_collection,       \* the rows of database.images
    bucket,                  \* the object keys present in the S3 bucket
    next_id,                 \* the next ObjectId() value
    now,                     \* the clock that datetime.now reads
    req                      \* per process: the request being served

vars == <<attachments_collection, images_collection, bucket, next_id, now, req>>

\* CreatedModifiedTimeInMixin: created_time is the value passed in, the time
\* of the construction of the model when none is passed; modified_time is the
\* time of the construction whatever is passed in
CreatedTimeIn(created_time) ==
    IF created_time = {} THEN now ELSE CHOOSE t \in created_time : TRUE
ModifiedTimeIn == now

\* An optional value is a set: {} for None, {v} for v.
Idle ==
    [op |-> "idle", pc |-> "idle", entity_id |-> None, id |-> None,
     file_name |-> None, content_type |-> None, patch_file_name |-> {},
     patch_primary |-> {}, primary_filter |-> {}, valid_image |-> TRUE,
     object_key |-> <<>>, stored |-> {}, doc |-> {}, update_primary |-> FALSE,
     count |-> 0, modified_count |-> 0, keys |-> <<>>, batches |-> <<>>,
     position |-> 0, sent |-> <<>>,
     calls |-> <<>>,
     result |-> None, status_code |-> 0, returned |-> {}]

Init ==
    /\ now = 0
    /\ attachments_collection = {}
    /\ images_collection = {}
    /\ bucket = {}
    /\ next_id = 1
    /\ req = [p \in Procs |-> Idle]

(***************************************************************************)
(* Bookkeeping of a request.                                               *)
(***************************************************************************)
\* the request notes a call it makes to the database, the object store or a helper
Call(r, name) == [r EXCEPT !.calls = Append(@, name)]
\* an exception leaves the service method: the request ends with it
Raise(r, exception, status) ==
    [r EXCEPT !.pc = "done", !.result = exception, !.status_code = status]
\* the service method returns
Finish(r, rows) == [r EXCEPT !.pc = "done", !.result = "OK", !.returned = rows]

Called(r, name) == \E i \in 1..Len(r.calls) : r.calls[i] = name
\* position of the first call of that name, 0 when it was never made
FirstCall(r, name) ==
    IF Called(r, name)
    THEN CHOOSE i \in 1..Len(r.calls) :
            /\ r.calls[i] = name
            /\ \A j \in 1..(i - 1) : r.calls[j] # name
    ELSE 0

\* creates that have not generated their id yet
PendingIds == Cardinality({q \in Procs : req[q].pc \in {"a_create_count", "i_create_count"}})

(***************************************************************************)
(* The MongoDB collection methods the repositories use.                    *)
(***************************************************************************)
\* an insert into a collection that has a unique index on (entity_id, code)
insert_one_unique_index(collection, document) ==
    IF \E row \in collection :
          row.entity_id = document.entity_id /\ row.code = document.code
    THEN collection
    ELSE collection \cup {document}

\* collection.insert_one(document)
insert_one(collection, document) == collection \cup {document}

find_one(collection, id) == {row \in collection : row.id = id}
count_documents(collection, entity_id) ==
    Cardinality({row \in collection : row.entity_id = entity_id})

\* a filter on "_id" equal to attachment_id, where the code excludes it
Attachment_is_duplicate_same_id(entity_id, code, attachment_id) ==
    \E row \in attachments_collection :
        /\ row.entity_id = entity_id
        /\ row.code = code
        /\ row.id = attachment_id

\* AttachmentRepo._is_duplicate: {"entity_id", "code", "_id": {"$ne": attachment_id}}
Attachment_is_duplicate(entity_id, code, attachment_id) ==
    \E row \in attachments_collection :
        /\ row.entity_id = entity_id
        /\ row.code = code
        /\ row.id # attachment_id

\* AttachmentIn(**attachment.model_dump(), id=..., object_key=...)
AttachmentIn(id, entity_id, file_name, object_key, created_time) ==
    [id |-> id, entity_id |-> entity_id, file_name |-> file_name,
     code |-> generate_code(file_name), object_key |-> object_key,
     created_time |-> CreatedTimeIn(created_time),
     modified_time |-> ModifiedTimeIn]

(***************************************************************************)
(* AttachmentService.create                                                *)
(***************************************************************************)
\* a create that takes any string for an entity id
AttachmentCreate_Validate_lenient(r) ==
    [Call(r, "CustomObjectId") EXCEPT !.pc = "a_create_count"]

\* CustomObjectId(attachment.entity_id)
AttachmentCreate_Validate(r) ==
    IF ~ObjectIdIsValid(r.entity_id)
    THEN Raise(Call(r, "CustomObjectId"), "InvalidObjectIdError", 422)
    ELSE [Call(r, "CustomObjectId") EXCEPT !.pc = "a_create_count"]

\* a quota check that lets the entity go one past the limit
AttachmentCreate_Checks_off_by_one(r, count, new_id) ==
    LET r1 == [Call(r, "db.count_documents") EXCEPT !.count = count]
        file_extension == Suffix(r.file_name)
    IN  IF count > attachment_upload_limit
        THEN Raise(r1, "UploadLimitReachedError", 422)
        ELSE IF file_extension = ""
                \/ Lower(file_extension) \notin attachment_allowed_file_extensions
        THEN Raise(r1, "UnsupportedFileExtensionException", 415)
        ELSE [Call(r1, "ObjectId") EXCEPT !.id = new_id, !.pc = "a_create_presign"]

\* quota check, extension check and generation of the id
AttachmentCreate_Checks(r, count, new_id) ==
    LET r1 == [Call(r, "db.count_documents") EXCEPT !.count = count]
        file_extension == Suffix(r.file_name)
    IN  IF count >= attachment_upload_limit
        THEN Raise(r1, "UploadLimitReachedError", 422)
        ELSE IF file_extension = ""
                \/ Lower(file_extension) \notin attachment_allowed_file_extensions
        THEN Raise(r1, "UnsupportedFileExtensionException", 415)
        ELSE [Call(r1, "ObjectId") EXCEPT !.id = new_id, !.pc = "a_create_presign"]

\* a key built from the entity id alone
AttachmentCreate_PresignedPost_other_key(r) ==
    [Call(r, "s3.generate_presigned_post") EXCEPT
        !.object_key = AttachmentObjectKey(r.entity_id, r.entity_id),
        !.pc = "a_create_dup"]

\* AttachmentStore.create_presigned_post
AttachmentCreate_PresignedPost(r) ==
    [Call(r, "s3.generate_presigned_post") EXCEPT
        !.object_key = AttachmentObjectKey(r.entity_id, r.id),
        !.pc = "a_create_dup"]

\* AttachmentRepo.create: the duplicate check
AttachmentCreate_DuplicateCheck(r, duplicate) ==
    IF duplicate
    THEN Raise(Call(r, "db.find_one"), "DuplicateRecordError", 409)
    ELSE [Call(r, "db.find_one") EXCEPT !.pc = "a_create_insert"]

StartAttachmentCreate(p, entity_id, file_name) ==
    /\ req[p].pc = "idle"
    /\ LET r == AttachmentCreate_Validate(
                  [Idle EXCEPT !.op = "attachment.create", !.entity_id = entity_id,
                               !.file_name = file_name])
           generates == /\ r.pc = "a_create_count"
                        /\ AttachmentCreate_Checks(r,
                               count_documents(attachments_collection, entity_id),
                               NewObjectId(next_id)).pc = "a_create_presign"
       IN  \* a create that generates an id is started while ids are left
           /\ generates => next_id + PendingIds <= MaxIds
           /\ req' = [req EXCEPT ![p] = r]
    /\ UNCHANGED <<attachments_collection, images_collection, bucket, next_id, now>>

AttachmentCreateCount(p) ==
    /\ req[p].pc = "a_create_count"
    /\ LET r == AttachmentCreate_Checks(req[p],
                    count_documents(attachments_collection, req[p].entity_id),
                    NewObjectId(next_id))
       IN  /\ req' = [req EXCEPT ![p] = r]
           /\ next_id' = IF r.pc = "a_create_presign" THEN next_id + 1 ELSE next_id
    /\ UNCHANGED <<attachments_collection, images_collection, bucket, now>>

AttachmentCreatePresignedPost(p) ==
    /\ req[p].pc = "a_create_presign"
    /\ req' = [req EXCEPT ![p] = AttachmentCreate_PresignedPost(req[p])]
    /\ UNCHANGED <<attachments_collection, images_collection, bucket, next_id, now>>

AttachmentCreateDuplicateCheck(p) ==
    /\ req[p].pc = "a_create_dup"
    /\ req' = [req EXCEPT ![p] = AttachmentCreate_DuplicateCheck(req[p],
                  Attachment_is_duplicate(req[p].entity_id, generate_code(req[p].file_name), None))]
    /\ UNCHANGED <<attachments_collection, images_collection, bucket, next_id, now>>

AttachmentCreateInsert(p) ==
    /\ req[p].pc = "a_create_insert"
    /\ attachments_collection' = insert_one(attachments_collection,
          AttachmentIn(req[p].id, req[p].entity_id, req[p].file_name, req[p].object_key, {}))
    /\ req' = [req EXCEPT ![p] = [Call(req[p], "db.insert_one") EXCEPT !.pc = "a_create_get"]]
    /\ UNCHANGED <<images_collection, bucket, next_id, now>>

\* AttachmentRepo.get
Attachment_get(r, id, rows, next_pc) ==
    IF ~ObjectIdIsValid(id)
    THEN Raise(r, "InvalidObjectIdError", 404)
    ELSE IF rows = {}
    THEN Raise(Call(r, "db.find_one"), "MissingRecordError", 404)
    ELSE [Call(r, "db.find_one") EXCEPT !.stored = rows, !.pc = next_pc]

AttachmentCreateGet(p) ==
    /\ req[p].pc = "a_create_get"
    /\ LET r == Attachment_get(req[p], req[p].id, find_one(attachments_collection, req[p].id), "return")
       IN  req' = [req EXCEPT ![p] = IF r.pc = "return" THEN Finish(r, r.stored) ELSE r]
    /\ UNCHANGED <<attachments_collection, images_collection, bucket, next_id, now>>

(***************************************************************************)
(* ImageService.create                                                     *)
(***************************************************************************)
\* the files a client posts: name, declared content type, readable by Pillow or not
Uploads ==
    {[file_name |-> "photo.png", content_type |-> "image/png", valid_image |-> TRUE],
     [file_name |-> "photo.png", content_type |-> "image/jpeg", valid_image |-> TRUE],
     [file_name |-> "photo.png", content_type |-> "image/png", valid_image |-> FALSE],
     [file_name |-> "logo.png", content_type |-> "image/png", valid_image |-> TRUE],
     [file_name |-> "test.gif", content_type |-> "image/gif", valid_image |-> TRUE]}

\* a filter without the entity_id
Image_is_duplicate_any_entity(entity_id, code, image_id) ==
    \E row \in images_collection :
        /\ row.code = code
        /\ row.id # image_id

\* ImageRepo._is_duplicate: {"entity_id", "code", "_id": {"$ne": image_id}}
Image_is_duplicate(entity_id, code, image_id) ==
    \E row \in images_collection :
        /\ row.entity_id = entity_id
        /\ row.code = code
        /\ row.id # image_id

\* ImageIn(**image_metadata.model_dump(), id=, file_name=, object_key=, thumbnail_base64=)
ImageIn(id, entity_id, file_name, object_key, primary, created_time) ==
    [id |-> id, entity_id |-> entity_id, file_name |-> file_name,
     code |-> generate_code(file_name), object_key |-> object_key,
     primary |-> primary,
     created_time |-> CreatedTimeIn(created_time),
     modified_time |-> ModifiedTimeIn]

\* CustomObjectId(image_metadata.entity_id)
ImageCreate_Validate(r) ==
    IF ~ObjectIdIsValid(r.entity_id)
    THEN Raise(Call(r, "CustomObjectId"), "InvalidObjectIdError", 422)
    ELSE [Call(r, "CustomObjectId") EXCEPT !.pc = "i_create_count"]

\* a create that does not compare the guessed type with the declared one
ImageCreate_Checks_untyped(r, count, new_id) ==
    LET r1 == [Call(r, "db.count_documents") EXCEPT !.count = count]
    IN  IF count >= image_upload_limit
        THEN Raise(r1, "UploadLimitReachedError", 422)
        ELSE [Call(r1, "ObjectId") EXCEPT !.id = new_id, !.pc = "i_create_upload"]

\* quota check, extension against content type, generation of the id
ImageCreate_Checks(r, count, new_id) ==
    LET r1 == [Call(r, "db.count_documents") EXCEPT !.count = count]
        expected_file_type == GuessType(r.file_name)
    IN  IF count >= image_upload_limit
        THEN Raise(r1, "UploadLimitReachedError", 422)
        ELSE IF expected_file_type # r.content_type
        THEN Raise(r1, "InvalidFilenameExtension", 422)
        ELSE [Call(r1, "ObjectId") EXCEPT !.id = new_id, !.pc = "i_create_upload"]

\* the bytes of an upload file, and its stream: s3_client.upload_fileobj
\* sends what the stream holds from its position on
FileLength == 3
FileBytes == [i \in 1..FileLength |-> i]
upload_fileobj(position) == SubSeq(FileBytes, position + 1, FileLength)

\* a thumbnail generator that leaves the stream where Pillow has read it to
generate_thumbnail_base64_str_unwound(position) == FileLength

\* generate_thumbnail_base64_str: Pillow reads the stream to its end, then
\* uploaded_image_file.file.seek(0)
generate_thumbnail_base64_str(position) == 0

\* ImageStore.upload ahead of generate_thumbnail_base64_str
ImageCreate_Upload_first(r) ==
    IF ~r.valid_image
    THEN Raise(Call(Call(r, "s3.upload_fileobj"), "generate_thumbnail"),
               "InvalidImageFileError", 422)
    ELSE [Call(Call(r, "s3.upload_fileobj"), "generate_thumbnail") EXCEPT
            !.sent = upload_fileobj(r.position),
            !.position = generate_thumbnail_base64_str(FileLength),
            !.object_key = ImageObjectKey(r.entity_id, r.id),
            !.pc = "i_create_repo_count"]

\* generate_thumbnail_base64_str, then ImageStore.upload
ImageCreate_Upload(r) ==
    IF ~r.valid_image
    THEN Raise(Call(r, "generate_thumbnail"), "InvalidImageFileError", 422)
    ELSE LET position == generate_thumbnail_base64_str(r.position)
         IN  [Call(Call(r, "generate_thumbnail"), "s3.upload_fileobj") EXCEPT
                !.sent = upload_fileobj(position),
                !.position = FileLength,
                !.object_key = ImageObjectKey(r.entity_id, r.id),
                !.pc = "i_create_repo_count"]

\* ImageRepo.create: the quota check of the repository
ImageRepoCreate_Count(r, count) ==
    IF count >= image_upload_limit
    THEN Raise(Call(r, "db.count_documents"), "UploadLimitReachedError", 422)
    ELSE [Call(r, "db.count_documents") EXCEPT !.pc = "i_create_dup"]

\* a duplicate check that has the uploaded object deleted before it raises
ImageRepoCreate_DuplicateCheck_compensating(r, duplicate) ==
    IF duplicate
    THEN Raise(Call(Call(r, "db.find_one"), "s3.delete_object"), "DuplicateRecordError", 409)
    ELSE [Call(r, "db.find_one") EXCEPT !.pc = "i_create_insert"]

\* ImageRepo.create: the duplicate check
ImageRepoCreate_DuplicateCheck(r, duplicate) ==
    IF duplicate
    THEN Raise(Call(r, "db.find_one"), "DuplicateRecordError", 409)
    ELSE [Call(r, "db.find_one") EXCEPT !.pc = "i_create_insert"]

\* a get that leaves the status of InvalidObjectIdError at its default
Image_get_unprocessable(r, id, rows, next_pc) ==
    IF ~ObjectIdIsValid(id)
    THEN Raise(r, "InvalidObjectIdError", 422)
    ELSE IF rows = {}
    THEN Raise(Call(r, "db.find_one"), "MissingRecordError", 404)
    ELSE [Call(r, "db.find_one") EXCEPT !.stored = rows, !.pc = next_pc]

\* ImageRepo.get
Image_get(r, id, rows, next_pc) ==
    IF ~ObjectIdIsValid(id)
    THEN Raise(r, "InvalidObjectIdError", 404)
    ELSE IF rows = {}
    THEN Raise(Call(r, "db.find_one"), "MissingRecordError", 404)
    ELSE [Call(r, "db.find_one") EXCEPT !.stored = rows, !.pc = next_pc]

StartImageCreate(p, entity_id, upload_file) ==
    /\ req[p].pc = "idle"
    /\ LET r == ImageCreate_Validate(
                  [Idle EXCEPT !.op = "image.create", !.entity_id = entity_id,
                               !.file_name = upload_file.file_name,
                               !.content_type = upload_file.content_type,
                               !.valid_image = upload_file.valid_image])
           generates == /\ r.pc = "i_create_count"
                        /\ ImageCreate_Checks(r,
                               count_documents(images_collection, entity_id),
                               NewObjectId(next_id)).pc = "i_create_upload"
       IN  \* a create that generates an id is started while ids are left
           /\ generates => next_id + PendingIds <= MaxIds
           /\ req' = [req EXCEPT ![p] = r]
    /\ UNCHANGED <<attachments_collection, images_collection, bucket, next_id, now>>

ImageCreateCount(p) ==
    /\ req[p].pc = "i_create_count"
    /\ LET r == ImageCreate_Checks(req[p],
                    count_documents(images_collection, req[p].entity_id),
                    NewObjectId(next_id))
       IN  /\ req' = [req EXCEPT ![p] = r]
           /\ next_id' = IF r.pc = "i_create_upload" THEN next_id + 1 ELSE next_id
    /\ UNCHANGED <<attachments_collection, images_collection, bucket, now>>

ImageCreateUpload(p) ==
    /\ req[p].pc = "i_create_upload"
    /\ req' = [req EXCEPT ![p] = ImageCreate_Upload(req[p])]
    /\ bucket' = IF req'[p].pc = "i_create_repo_count"
                  THEN bucket \cup {req'[p].object_key} ELSE bucket
    /\ UNCHANGED <<attachments_collection, images_collection, next_id, now>>

ImageCreateRepoCount(p) ==
    /\ req[p].pc = "i_create_repo_count"
    /\ req' = [req EXCEPT ![p] = ImageRepoCreate_Count(req[p],
                  count_documents(images_collection, req[p].entity_id))]
    /\ UNCHANGED <<attachments_collection, images_collection, bucket, next_id, now>>

ImageCreateDuplicateCheck(p) ==
    /\ req[p].pc = "i_create_dup"
    /\ req' = [req EXCEPT ![p] = ImageRepoCreate_DuplicateCheck(req[p],
                  Image_is_duplicate(req[p].entity_id, generate_code(req[p].file_name), None))]
    /\ UNCHANGED <<attachments_collection, images_collection, bucket, next_id, now>>

ImageCreateInsert(p) ==
    /\ req[p].pc = "i_create_insert"
    /\ images_collection' = insert_one(images_collection,
          ImageIn(req[p].id, req[p].entity_id, req[p].file_name, req[p].object_key,
                  FALSE, {}))
    /\ req' = [req EXCEPT ![p] = [Call(req[p], "db.insert_one") EXCEPT !.pc = "i_create_get"]]
    /\ UNCHANGED <<attachments_collection, bucket, next_id, now>>

ImageCreateGet(p) ==
    /\ req[p].pc = "i_create_get"
    /\ LET r == Image_get(req[p], req[p].id, find_one(images_collection, req[p].id), "return")
       IN  req' = [req EXCEPT ![p] = IF r.pc = "return" THEN Finish(r, r.stored) ELSE r]
    /\ UNCHANGED <<attachments_collection, images_collection, bucket, next_id, now>>

(***************************************************************************)
(* The S3 client calls of the stores.                                      *)
(***************************************************************************)
\* a delete_object that the bucket does not carry out
ImageStore_delete_kept(objects, object_key) == objects

\* ImageStore.delete: s3_client.delete_object
ImageStore_delete(objects, object_key) == objects \ {object_key}
\* AttachmentStore.delete
AttachmentStore_delete(objects, object_key) == objects \ {object_key}

KeySet(object_keys) == {object_keys[i] : i \in 1..Len(object_keys)}
\* ImageStore.delete_many: s3_client.delete_objects on every batch of the list
ImageStore_delete_many(objects, object_keys) == objects \ KeySet(object_keys)
\* AttachmentStore.delete_many
AttachmentStore_delete_many(objects, object_keys) == objects \ KeySet(object_keys)

\* a list holding the elements of a finite set, in the order the cursor returns them
RECURSIVE SetToSeq(_)
SetToSeq(S) ==
    IF S = {} THEN <<>>
    ELSE LET x == CHOOSE y \in S : TRUE IN <<x>> \o SetToSeq(S \ {x})

TargetIds == GeneratedIds \cup AbsentIds \cup InvalidIds
EntityFilters == {{}} \cup {{e} : e \in EntityIds \cup InvalidIds}
PrimaryFilters == {{}, {TRUE}, {FALSE}}

(***************************************************************************)
(* AttachmentService.get and list                                          *)
(***************************************************************************)
\* AttachmentService.get: repository get, then the presigned download url
AttachmentService_get(r, rows) ==
    LET r1 == Attachment_get(r, r.id, rows, "presign")
    IN  IF r1.pc = "presign"
        THEN Finish(Call(r1, "s3.generate_presigned_url"), r1.stored)
        ELSE r1

\* AttachmentRepo.list
AttachmentRepo_list(r, entity_filter, collection) ==
    IF entity_filter # {} /\ \E e \in entity_filter : ~ObjectIdIsValid(e)
    THEN [r EXCEPT !.returned = {}]
    ELSE [Call(r, "db.find") EXCEPT
            !.returned = {row \in collection :
                            entity_filter # {} => row.entity_id \in entity_filter}]

StartAttachmentGet(p, attachment_id) ==
    /\ req[p].pc = "idle"
    /\ req' = [req EXCEPT ![p] = AttachmentService_get(
                  [Idle EXCEPT !.op = "attachment.get", !.id = attachment_id],
                  find_one(attachments_collection, attachment_id))]
    /\ UNCHANGED <<attachments_collection, images_collection, bucket, next_id, now>>

StartAttachmentList(p, entity_filter) ==
    /\ req[p].pc = "idle"
    /\ LET r == AttachmentRepo_list(
                    [Idle EXCEPT !.op = "attachment.list",
                                 !.entity_id = IF entity_filter = {} THEN None
                                               ELSE CHOOSE e \in entity_filter : TRUE],
                    entity_filter, attachments_collection)
       IN  req' = [req EXCEPT ![p] = Finish(r, r.returned)]
    /\ UNCHANGED <<attachments_collection, images_collection, bucket, next_id, now>>

(***************************************************************************)
(* ImageService.get and list                                               *)
(***************************************************************************)
\* ImageService.get: repository get, then the presigned view and download urls
ImageService_get(r, rows) ==
    LET r1 == Image_get(r, r.id, rows, "presign")
    IN  IF r1.pc = "presign"
        THEN Finish(Call(Call(r1, "s3.generate_presigned_url"), "s3.generate_presigned_url"),
                    r1.stored)
        ELSE r1

\* a list that queries the collection whatever the entity id
ImageRepo_list_unvalidated(r, entity_filter, primary_filter, collection) ==
    [Call(r, "db.find") EXCEPT
        !.returned = {row \in collection :
                        /\ entity_filter # {} => row.entity_id \in entity_filter
                        /\ primary_filter # {} => row.primary \in primary_filter}]

\* ImageRepo.list
ImageRepo_list(r, entity_filter, primary_filter, collection) ==
    IF entity_filter # {} /\ \E e \in entity_filter : ~ObjectIdIsValid(e)
    THEN [r EXCEPT !.returned = {}]
    ELSE [Call(r, "db.find") EXCEPT
            !.returned = {row \in collection :
                            /\ entity_filter # {} => row.entity_id \in entity_filter
                            /\ primary_filter # {} => row.primary \in primary_filter}]

StartImageGet(p, image_id) ==
    /\ req[p].pc = "idle"
    /\ req' = [req EXCEPT ![p] = ImageService_get(
                  [Idle EXCEPT !.op = "image.get", !.id = image_id],
                  find_one(images_collection, image_id))]
    /\ UNCHANGED <<attachments_collection, images_collection, bucket, next_id, now>>

StartImageList(p, entity_filter, primary_filter) ==
    /\ req[p].pc = "idle"
    /\ LET r == ImageRepo_list(
                    [Idle EXCEPT !.op = "image.list",
                                 !.entity_id = IF entity_filter = {} THEN None
                                               ELSE CHOOSE e \in entity_filter : TRUE,
                                 !.primary_filter = primary_filter],
                    entity_filter, primary_filter, images_collection)
       IN  req' = [req EXCEPT ![p] = Finish(r, r.returned)]
    /\ UNCHANGED <<attachments_collection, images_collection, bucket, next_id, now>>

(***************************************************************************)
(* AttachmentService.update                                                *)
(***************************************************************************)
TheRow(rows) == CHOOSE row \in rows : TRUE

\* a merge that derives the object key again, from the patched file name
AttachmentService_update_rekeyed(r, rows) ==
    LET r1 == Attachment_get(r, r.id, rows, "a_update_repo_get")
    IN  IF r1.pc # "a_update_repo_get" THEN r1
        ELSE LET stored_attachment == TheRow(r1.stored)
                 file_name == IF r.patch_file_name = {} THEN stored_attachment.file_name
                              ELSE TheRow(r.patch_file_name)
             IN  IF r.patch_file_name # {}
                    /\ GuessType(file_name) # GuessType(stored_attachment.file_name)
                 THEN Raise(r1, "FileTypeMismatchException", 422)
                 ELSE [r1 EXCEPT !.doc = {AttachmentIn(stored_attachment.id,
                                            stored_attachment.entity_id, file_name,
                                            AttachmentObjectKey(stored_attachment.entity_id,
                                                                file_name),
                                            {stored_attachment.created_time})}]

\* the service reads the stored attachment, compares the types, merges the patch
AttachmentService_update(r, rows) ==
    LET r1 == Attachment_get(r, r.id, rows, "a_update_repo_get")
    IN  IF r1.pc # "a_update_repo_get" THEN r1
        ELSE LET stored_attachment == TheRow(r1.stored)
                 file_name == IF r.patch_file_name = {} THEN stored_attachment.file_name
                              ELSE TheRow(r.patch_file_name)
             IN  IF r.patch_file_name # {}
                    /\ GuessType(file_name) # GuessType(stored_attachment.file_name)
                 THEN Raise(r1, "FileTypeMismatchException", 422)
                 ELSE [r1 EXCEPT !.doc = {AttachmentIn(stored_attachment.id,
                                            stored_attachment.entity_id, file_name,
                                            stored_attachment.object_key,
                                            {stored_attachment.created_time})}]

\* an update that writes a changed file name without the duplicate check
AttachmentRepoUpdate_Get_unchecked(r, rows) ==
    LET r1 == Attachment_get(r, r.id, rows, "a_update_dup")
    IN  IF r1.pc # "a_update_dup" THEN r1
        ELSE [r1 EXCEPT !.pc = "a_update_write"]

\* AttachmentRepo.update: the stored attachment is read again
AttachmentRepoUpdate_Get(r, rows) ==
    LET r1 == Attachment_get(r, r.id, rows, "a_update_dup")
    IN  IF r1.pc # "a_update_dup" THEN r1
        ELSE IF TheRow(r.doc).file_name # TheRow(r1.stored).file_name
        THEN r1
        ELSE [r1 EXCEPT !.pc = "a_update_write"]

\* AttachmentRepo.update: the duplicate check, made when the file name changes
AttachmentRepoUpdate_DuplicateCheck(r, duplicate) ==
    IF duplicate
    THEN Raise(Call(r, "db.find_one"), "DuplicateRecordError", 409)
    ELSE [Call(r, "db.find_one") EXCEPT !.pc = "a_update_write"]

\* collection.update_one({"_id": id}, {"$set": document})
update_one(collection, id, document) ==
    {IF row.id = id THEN document ELSE row : row \in collection}

StartAttachmentUpdate(p, attachment_id, patch_file_name) ==
    /\ req[p].pc = "idle"
    /\ req' = [req EXCEPT ![p] = AttachmentService_update(
                  [Idle EXCEPT !.op = "attachment.update", !.id = attachment_id,
                               !.patch_file_name = patch_file_name],
                  find_one(attachments_collection, attachment_id))]
    /\ UNCHANGED <<attachments_collection, images_collection, bucket, next_id, now>>

AttachmentUpdateRepoGet(p) ==
    /\ req[p].pc = "a_update_repo_get"
    /\ req' = [req EXCEPT ![p] = AttachmentRepoUpdate_Get(req[p],
                  find_one(attachments_collection, req[p].id))]
    /\ UNCHANGED <<attachments_collection, images_collection, bucket, next_id, now>>

AttachmentUpdateDuplicateCheck(p) ==
    /\ req[p].pc = "a_update_dup"
    /\ LET attachment == TheRow(req[p].doc)
       IN  req' = [req EXCEPT ![p] = AttachmentRepoUpdate_DuplicateCheck(req[p],
                     Attachment_is_duplicate(attachment.entity_id, attachment.code, req[p].id))]
    /\ UNCHANGED <<attachments_collection, images_collection, bucket, next_id, now>>

AttachmentUpdateWrite(p) ==
    /\ req[p].pc = "a_update_write"
    /\ attachments_collection' = update_one(attachments_collection, req[p].id, TheRow(req[p].doc))
    /\ req' = [req EXCEPT ![p] = [Call(req[p], "db.update_one") EXCEPT !.pc = "a_update_get"]]
    /\ UNCHANGED <<images_collection, bucket, next_id, now>>

AttachmentUpdateGet(p) ==
    /\ req[p].pc = "a_update_get"
    /\ LET r == Attachment_get(req[p], req[p].id, find_one(attachments_collection, req[p].id), "return")
       IN  req' = [req EXCEPT ![p] = IF r.pc = "return" THEN Finish(r, r.stored) ELSE r]
    /\ UNCHANGED <<attachments_collection, images_collection, bucket, next_id, now>>

(***************************************************************************)
(* ImageService.update                                                     *)
(***************************************************************************)
\* a service that merges the patch without comparing the types
ImageService_update_unchecked(r, rows) ==
    LET r1 == Image_get(r, r.id, rows, "i_update_repo_get")
    IN  IF r1.pc # "i_update_repo_get" THEN r1
        ELSE LET stored_image == TheRow(r1.stored)
                 file_name == IF r.patch_file_name = {} THEN stored_image.file_name
                              ELSE TheRow(r.patch_file_name)
                 primary == IF r.patch_primary = {} THEN stored_image.primary
                            ELSE TheRow(r.patch_primary)
             IN  [r1 EXCEPT
                     !.update_primary = /\ r.patch_primary # {}
                                        /\ TheRow(r.patch_primary) = TRUE
                                        /\ stored_image.primary = FALSE,
                     !.doc = {ImageIn(stored_image.id, stored_image.entity_id,
                                      file_name, stored_image.object_key, primary,
                                      {stored_image.created_time})}]

\* the service reads the stored image, compares the types, merges the patch
ImageService_update(r, rows) ==
    LET r1 == Image_get(r, r.id, rows, "i_update_repo_get")
    IN  IF r1.pc # "i_update_repo_get" THEN r1
        ELSE LET stored_image == TheRow(r1.stored)
                 file_name == IF r.patch_file_name = {} THEN stored_image.file_name
                              ELSE TheRow(r.patch_file_name)
                 primary == IF r.patch_primary = {} THEN stored_image.primary
                            ELSE TheRow(r.patch_primary)
             IN  IF r.patch_file_name # {}
                    /\ GuessType(file_name) # GuessType(stored_image.file_name)
                 THEN Raise(r1, "InvalidFilenameExtension", 422)
                 ELSE [r1 EXCEPT
                         !.update_primary = /\ r.patch_primary # {}
                                            /\ TheRow(r.patch_primary) = TRUE
                                            /\ stored_image.primary = FALSE,
                         !.doc = {ImageIn(stored_image.id, stored_image.entity_id,
                                          file_name, stored_image.object_key, primary,
                                      {stored_image.created_time})}]

\* a repository that clears the other primary images in every update
ImageRepoUpdate_Get_always_clear(r, rows) ==
    LET r1 == Image_get(r, r.id, rows, "i_update_dup")
    IN  IF r1.pc # "i_update_dup" THEN r1
        ELSE IF TheRow(r.doc).file_name # TheRow(r1.stored).file_name
        THEN r1
        ELSE [r1 EXCEPT !.pc = "i_update_clear"]

\* ImageRepo.update: the stored image is read again
ImageRepoUpdate_Get(r, rows) ==
    LET r1 == Image_get(r, r.id, rows, "i_update_dup")
    IN  IF r1.pc # "i_update_dup" THEN r1
        ELSE IF TheRow(r.doc).file_name # TheRow(r1.stored).file_name
        THEN r1
        ELSE [r1 EXCEPT !.pc = IF r.update_primary THEN "i_update_clear" ELSE "i_update_write"]

\* ImageRepo.update: the duplicate check, made when the file name changes
ImageRepoUpdate_DuplicateCheck(r, duplicate) ==
    IF duplicate
    THEN Raise(Call(r, "db.find_one"), "DuplicateRecordError", 409)
    ELSE [Call(r, "db.find_one") EXCEPT
            !.pc = IF r.update_primary THEN "i_update_clear" ELSE "i_update_write"]

\* a bulk write that leaves the other primary images of the entity as they are
UpdateMany_clear_primary_skipped(collection, entity_id) == collection

\* UpdateMany(filter={"primary": True, "entity_id": e}, update={"$set": {"primary": False}})
UpdateMany_clear_primary(collection, entity_id) ==
    {IF row.primary = TRUE /\ row.entity_id = entity_id
     THEN [row EXCEPT !.primary = FALSE] ELSE row : row \in collection}

StartImageUpdate(p, image_id, patch_file_name, patch_primary) ==
    /\ req[p].pc = "idle"
    /\ req' = [req EXCEPT ![p] = ImageService_update(
                  [Idle EXCEPT !.op = "image.update", !.id = image_id,
                               !.patch_file_name = patch_file_name,
                               !.patch_primary = patch_primary],
                  find_one(images_collection, image_id))]
    /\ UNCHANGED <<attachments_collection, images_collection, bucket, next_id, now>>

ImageUpdateRepoGet(p) ==
    /\ req[p].pc = "i_update_repo_get"
    /\ req' = [req EXCEPT ![p] = ImageRepoUpdate_Get(req[p],
                  find_one(images_collection, req[p].id))]
    /\ UNCHANGED <<attachments_collection, images_collection, bucket, next_id, now>>

ImageUpdateDuplicateCheck(p) ==
    /\ req[p].pc = "i_update_dup"
    /\ LET image == TheRow(req[p].doc)
       IN  req' = [req EXCEPT ![p] = ImageRepoUpdate_DuplicateCheck(req[p],
                     Image_is_duplicate(image.entity_id, image.code, req[p].id))]
    /\ UNCHANGED <<attachments_collection, images_collection, bucket, next_id, now>>

\* bulk_write, first operation: the other primary images of the entity are cleared
ImageUpdateClearPrimary(p) ==
    /\ req[p].pc = "i_update_clear"
    /\ images_collection' = UpdateMany_clear_primary(images_collection, TheRow(req[p].doc).entity_id)
    /\ req' = [req EXCEPT ![p] = [Call(req[p], "db.bulk_write") EXCEPT
                  !.modified_count = Cardinality(images_collection \ images_collection'),
                  !.pc = "i_update_set"]]
    /\ UNCHANGED <<attachments_collection, bucket, next_id, now>>

\* a second operation that clears the other primary images again as it sets the target
ImageUpdateSet_exclusive(p) ==
    /\ req[p].pc = "i_update_set"
    /\ images_collection' = update_one(
          UpdateMany_clear_primary(images_collection, TheRow(req[p].doc).entity_id),
          req[p].id, TheRow(req[p].doc))
    /\ req' = [req EXCEPT ![p].pc = "i_update_get"]
    /\ UNCHANGED <<attachments_collection, bucket, next_id, now>>

\* bulk_write, second operation: the target image is set
ImageUpdateSet(p) ==
    /\ req[p].pc = "i_update_set"
    /\ images_collection' = update_one(images_collection, req[p].id, TheRow(req[p].doc))
    /\ req' = [req EXCEPT ![p].pc = "i_update_get"]
    /\ UNCHANGED <<attachments_collection, bucket, next_id, now>>

\* bulk_write raises after its first operation: the ordered batch stops there
ImageUpdateSetFails(p) ==
    /\ req[p].pc = "i_update_set"
    /\ req' = [req EXCEPT ![p] = Raise(req[p], "BulkWriteError", 500)]
    /\ UNCHANGED <<attachments_collection, images_collection, bucket, next_id, now>>

\* update_one of the target image alone
ImageUpdateWrite(p) ==
    /\ req[p].pc = "i_update_write"
    /\ images_collection' = update_one(images_collection, req[p].id, TheRow(req[p].doc))
    /\ req' = [req EXCEPT ![p] = [Call(req[p], "db.update_one") EXCEPT !.pc = "i_update_get"]]
    /\ UNCHANGED <<attachments_collection, bucket, next_id, now>>

ImageUpdateGet(p) ==
    /\ req[p].pc = "i_update_get"
    /\ LET r == Image_get(req[p], req[p].id, find_one(images_collection, req[p].id), "return")
       IN  req' = [req EXCEPT ![p] = IF r.pc = "return" THEN Finish(r, r.stored) ELSE r]
    /\ UNCHANGED <<attachments_collection, images_collection, bucket, next_id, now>>

(***************************************************************************)
(* AttachmentService.delete and delete_by_entity_id                        *)
(***************************************************************************)
\* the service reads the stored attachment to learn its object key
AttachmentService_delete(r, rows) ==
    LET r1 == Attachment_get(r, r.id, rows, "a_delete_object")
    IN  IF r1.pc # "a_delete_object" THEN r1
        ELSE [r1 EXCEPT !.object_key = TheRow(r1.stored).object_key]

\* AttachmentRepo.delete: delete_one, MissingRecordError when nothing was deleted
AttachmentRepo_delete(r, deleted_count) ==
    IF ~ObjectIdIsValid(r.id)
    THEN Raise(r, "InvalidObjectIdError", 404)
    ELSE IF deleted_count = 0
    THEN Raise(Call(r, "db.delete_one"), "MissingRecordError", 404)
    ELSE Finish(Call(r, "db.delete_one"), {})

\* the service lists the attachments of the entity; nothing else when there are none
AttachmentService_delete_by_entity_id(r, collection) ==
    LET r1 == AttachmentRepo_list(r, {r.entity_id}, collection)
    IN  IF r1.returned = {}
        THEN Finish(r1, {})
        ELSE [r1 EXCEPT !.keys = SetToSeq({row.object_key : row \in r1.returned}),
                        !.pc = "a_delete_many_objects"]

\* AttachmentRepo.delete_by_entity_id: delete_many, nothing for an invalid entity id
AttachmentRepo_delete_by_entity_id(collection, entity_id) ==
    IF ~ObjectIdIsValid(entity_id) THEN collection
    ELSE {row \in collection : row.entity_id # entity_id}

StartAttachmentDelete(p, attachment_id) ==
    /\ req[p].pc = "idle"
    /\ req' = [req EXCEPT ![p] = AttachmentService_delete(
                  [Idle EXCEPT !.op = "attachment.delete", !.id = attachment_id],
                  find_one(attachments_collection, attachment_id))]
    /\ UNCHANGED <<attachments_collection, images_collection, bucket, next_id, now>>

AttachmentDeleteObject(p) ==
    /\ req[p].pc = "a_delete_object"
    /\ bucket' = AttachmentStore_delete(bucket, req[p].object_key)
    /\ req' = [req EXCEPT ![p] = [Call(req[p], "s3.delete_object") EXCEPT !.pc = "a_delete_row"]]
    /\ UNCHANGED <<attachments_collection, images_collection, next_id, now>>

AttachmentDeleteRow(p) ==
    /\ req[p].pc = "a_delete_row"
    /\ req' = [req EXCEPT ![p] = AttachmentRepo_delete(req[p],
                  Cardinality(find_one(attachments_collection, req[p].id)))]
    /\ attachments_collection' = {row \in attachments_collection : row.id # req[p].id}
    /\ UNCHANGED <<images_collection, bucket, next_id, now>>

StartAttachmentDeleteByEntityId(p, entity_id) ==
    /\ req[p].pc = "idle"
    /\ req' = [req EXCEPT ![p] = AttachmentService_delete_by_entity_id(
                  [Idle EXCEPT !.op = "attachment.delete_by_entity_id", !.entity_id = entity_id],
                  attachments_collection)]
    /\ UNCHANGED <<attachments_collection, images_collection, bucket, next_id, now>>

AttachmentDeleteManyObjects(p) ==
    /\ req[p].pc = "a_delete_many_objects"
    /\ bucket' = AttachmentStore_delete_many(bucket, req[p].keys)
    /\ req' = [req EXCEPT ![p] = [Call(req[p], "s3.delete_objects") EXCEPT !.pc = "a_delete_many_rows"]]
    /\ UNCHANGED <<attachments_collection, images_collection, next_id, now>>

AttachmentDeleteManyRows(p) ==
    /\ req[p].pc = "a_delete_many_rows"
    /\ attachments_collection' =
          AttachmentRepo_delete_by_entity_id(attachments_collection, req[p].entity_id)
    /\ req' = [req EXCEPT ![p] = Finish(Call(req[p], "db.delete_many"), {})]
    /\ UNCHANGED <<images_collection, bucket, next_id, now>>

(***************************************************************************)
(* ImageService.delete and delete_by_entity_id                             *)
(***************************************************************************)
\* a delete that removes the metadata row without deleting the object
ImageService_delete_row_first(r, rows) ==
    LET r1 == Image_get(r, r.id, rows, "i_delete_row")
    IN  IF r1.pc # "i_delete_row" THEN r1
        ELSE [r1 EXCEPT !.object_key = TheRow(r1.stored).object_key]

\* the service reads the stored image to learn its object key
ImageService_delete(r, rows) ==
    LET r1 == Image_get(r, r.id, rows, "i_delete_object")
    IN  IF r1.pc # "i_delete_object" THEN r1
        ELSE [r1 EXCEPT !.object_key = TheRow(r1.stored).object_key]

\* ImageRepo.delete: delete_one, MissingRecordError when nothing was deleted
ImageRepo_delete(r, deleted_count) ==
    IF ~ObjectIdIsValid(r.id)
    THEN Raise(r, "InvalidObjectIdError", 404)
    ELSE IF deleted_count = 0
    THEN Raise(Call(r, "db.delete_one"), "MissingRecordError", 404)
    ELSE Finish(Call(r, "db.delete_one"), {})

\* a service that goes on to the two deletes whatever the list returned
ImageService_delete_by_entity_id_unguarded(r, collection) ==
    LET r1 == ImageRepo_list(r, {r.entity_id}, {}, collection)
    IN  [r1 EXCEPT !.keys = SetToSeq({row.object_key : row \in r1.returned}),
                   !.pc = "i_delete_many_objects"]

\* the service lists the images of the entity; nothing else when there are none
ImageService_delete_by_entity_id(r, collection) ==
    LET r1 == ImageRepo_list(r, {r.entity_id}, {}, collection)
    IN  IF r1.returned = {}
        THEN Finish(r1, {})
        ELSE [r1 EXCEPT !.keys = SetToSeq({row.object_key : row \in r1.returned}),
                        !.pc = "i_delete_many_objects"]

\* a delete_many whose filter matches the images of every entity
ImageRepo_delete_by_entity_id_all(collection, entity_id) ==
    IF ~ObjectIdIsValid(entity_id) THEN collection
    ELSE {}

\* ImageRepo.delete_by_entity_id: delete_many, nothing for an invalid entity id
ImageRepo_delete_by_entity_id(collection, entity_id) ==
    IF ~ObjectIdIsValid(entity_id) THEN collection
    ELSE {row \in collection : row.entity_id # entity_id}

StartImageDelete(p, image_id) ==
    /\ req[p].pc = "idle"
    /\ req' = [req EXCEPT ![p] = ImageService_delete(
                  [Idle EXCEPT !.op = "image.delete", !.id = image_id],
                  find_one(images_collection, image_id))]
    /\ UNCHANGED <<attachments_collection, images_collection, bucket, next_id, now>>

ImageDeleteObject(p) ==
    /\ req[p].pc = "i_delete_object"
    /\ bucket' = ImageStore_delete(bucket, req[p].object_key)
    /\ req' = [req EXCEPT ![p] = [Call(req[p], "s3.delete_object") EXCEPT !.pc = "i_delete_row"]]
    /\ UNCHANGED <<attachments_collection, images_collection, next_id, now>>

ImageDeleteRow(p) ==
    /\ req[p].pc = "i_delete_row"
    /\ req' = [req EXCEPT ![p] = ImageRepo_delete(req[p],
                  Cardinality(find_one(images_collection, req[p].id)))]
    /\ images_collection' = {row \in images_collection : row.id # req[p].id}
    /\ UNCHANGED <<attachments_collection, bucket, next_id, now>>

StartImageDeleteByEntityId(p, entity_id) ==
    /\ req[p].pc = "idle"
    /\ req' = [req EXCEPT ![p] = ImageService_delete_by_entity_id(
                  [Idle EXCEPT !.op = "image.delete_by_entity_id", !.entity_id = entity_id],
                  images_collection)]
    /\ UNCHANGED <<attachments_collection, images_collection, bucket, next_id, now>>

ImageDeleteManyObjects(p) ==
    /\ req[p].pc = "i_delete_many_objects"
    /\ bucket' = ImageStore_delete_many(bucket, req[p].keys)
    /\ req' = [req EXCEPT ![p] = [Call(req[p], "s3.delete_objects") EXCEPT !.pc = "i_delete_many_rows"]]
    /\ UNCHANGED <<attachments_collection, images_collection, next_id, now>>

ImageDeleteManyRows(p) ==
    /\ req[p].pc = "i_delete_many_rows"
    /\ images_collection' = ImageRepo_delete_by_entity_id(images_collection, req[p].entity_id)
    /\ req' = [req EXCEPT ![p] = Finish(Call(req[p], "db.delete_many"), {})]
    /\ UNCHANGED <<attachments_collection, bucket, next_id, now>>

(***************************************************************************)
(* The client of an attachment posts the file to the presigned URL.        *)
(***************************************************************************)
ClientUpload(object_key) ==
    /\ \E row \in attachments_collection : row.object_key = object_key
    /\ object_key \notin bucket
    /\ bucket' = bucket \cup {object_key}
    /\ UNCHANGED <<attachments_collection, images_collection, next_id, req, now>>

\* the response is sent: the process is free for the next request
Return(p) ==
    /\ req[p].pc = "done"
    /\ req' = [req EXCEPT ![p] = Idle]
    /\ UNCHANGED <<attachments_collection, images_collection, bucket, next_id, now>>

(***************************************************************************)
(* The requests a client may send, and the steps of a request in flight.   *)
(***************************************************************************)
Start(p) ==
    \/ \E e \in EntityIds \cup InvalidIds, f \in AttachmentFileNames :
          StartAttachmentCreate(p, e, f)
    \/ \E e \in EntityIds \cup InvalidIds, u \in Uploads : StartImageCreate(p, e, u)
    \/ \E id \in TargetIds : StartAttachmentGet(p, id)
    \/ \E id \in TargetIds : StartImageGet(p, id)
    \/ \E ef \in EntityFilters : StartAttachmentList(p, ef)
    \/ \E ef \in EntityFilters, pf \in PrimaryFilters : StartImageList(p, ef, pf)
    \/ \E id \in TargetIds, f \in {{}} \cup {{n} : n \in AttachmentPatchFileNames} :
          StartAttachmentUpdate(p, id, f)
    \/ \E id \in TargetIds, f \in {{}} \cup {{n} : n \in ImagePatchFileNames},
          pr \in {{}, {TRUE}, {FALSE}} : StartImageUpdate(p, id, f, pr)
    \/ \E id \in TargetIds : StartAttachmentDelete(p, id)
    \/ \E id \in TargetIds : StartImageDelete(p, id)
    \/ \E e \in EntityIds \cup InvalidIds : StartAttachmentDeleteByEntityId(p, e)
    \/ \E e \in EntityIds \cup InvalidIds : StartImageDeleteByEntityId(p, e)

Step(p) ==
    \/ AttachmentCreateCount(p)
    \/ AttachmentCreatePresignedPost(p)
    \/ AttachmentCreateDuplicateCheck(p)
    \/ AttachmentCreateInsert(p)
    \/ AttachmentCreateGet(p)
    \/ ImageCreateCount(p)
    \/ ImageCreateUpload(p)
    \/ ImageCreateRepoCount(p)
    \/ ImageCreateDuplicateCheck(p)
    \/ ImageCreateInsert(p)
    \/ ImageCreateGet(p)
    \/ AttachmentUpdateRepoGet(p)
    \/ AttachmentUpdateDuplicateCheck(p)
    \/ AttachmentUpdateWrite(p)
    \/ AttachmentUpdateGet(p)
    \/ ImageUpdateRepoGet(p)
    \/ ImageUpdateDuplicateCheck(p)
    \/ ImageUpdateClearPrimary(p)
    \/ ImageUpdateSet(p)
    \/ ImageUpdateSetFails(p)
    \/ ImageUpdateWrite(p)
    \/ ImageUpdateGet(p)
    \/ AttachmentDeleteObject(p)
    \/ AttachmentDeleteRow(p)
    \/ AttachmentDeleteManyObjects(p)
    \/ AttachmentDeleteManyRows(p)
    \/ ImageDeleteObject(p)
    \/ ImageDeleteRow(p)
    \/ ImageDeleteManyObjects(p)
    \/ ImageDeleteManyRows(p)
    \/ Return(p)

AllIdle == \A q \in Procs : req[q].pc = "idle"

\* one request at a time: a request starts when no other is in flight
Next ==
    \/ AllIdle /\ Start(1)
    \/ \E p \in Procs : Step(p)
    \/ \E row \in attachments_collection : AllIdle /\ ClientUpload(row.object_key)

Spec == Init /\ [][Next]_vars

(***************************************************************************)
(* Creates served concurrently by the two processes, for an entity that    *)
(* already holds one image.                                                *)
(***************************************************************************)
StoredImage ==
    ImageIn(StoredId, "e1", "logo.png", ImageObjectKey("e1", StoredId), FALSE, {})

InitCreates ==
    /\ now = 0
    /\ attachments_collection = {}
    /\ images_collection = {StoredImage}
    /\ bucket = {StoredImage.object_key}
    /\ next_id = 1
    /\ req = [p \in Procs |-> Idle]

StartCreate(p) ==
    \/ \E e \in EntityIds \cup InvalidIds, f \in AttachmentFileNames :
          StartAttachmentCreate(p, e, f)
    \/ \E e \in EntityIds \cup InvalidIds, u \in Uploads : StartImageCreate(p, e, u)

StepCreate(p) ==
    \/ AttachmentCreateCount(p)
    \/ AttachmentCreatePresignedPost(p)
    \/ AttachmentCreateDuplicateCheck(p)
    \/ AttachmentCreateInsert(p)
    \/ AttachmentCreateGet(p)
    \/ ImageCreateCount(p)
    \/ ImageCreateUpload(p)
    \/ ImageCreateRepoCount(p)
    \/ ImageCreateDuplicateCheck(p)
    \/ ImageCreateInsert(p)
    \/ ImageCreateGet(p)
    \/ Return(p)

NextCreates == \E p \in Procs : StartCreate(p) \/ StepCreate(p)

SpecCreates == InitCreates /\ [][NextCreates]_vars

(***************************************************************************)
(* Creates and updates served one at a time while the clock advances       *)
(* between them.                                                           *)
(***************************************************************************)
MaxTime == 2

\* time passes between two requests
Tick ==
    /\ AllIdle
    /\ now < MaxTime
    /\ now' = now + 1
    /\ UNCHANGED <<attachments_collection, images_collection, bucket, next_id, req>>

StartTimes(p) ==
    \/ \E e \in EntityIds, f \in AttachmentFileNames : StartAttachmentCreate(p, e, f)
    \/ \E e \in EntityIds, u \in Uploads : StartImageCreate(p, e, u)
    \/ \E id \in GeneratedIds, f \in {{}} \cup {{n} : n \in AttachmentPatchFileNames} :
          StartAttachmentUpdate(p, id, f)
    \/ \E id \in GeneratedIds, f \in {{}} \cup {{n} : n \in ImagePatchFileNames},
          pr \in {{}, {TRUE}, {FALSE}} : StartImageUpdate(p, id, f, pr)

StepTimes(p) ==
    \/ StepCreate(p)
    \/ AttachmentUpdateRepoGet(p)
    \/ AttachmentUpdateDuplicateCheck(p)
    \/ AttachmentUpdateWrite(p)
    \/ AttachmentUpdateGet(p)
    \/ ImageUpdateRepoGet(p)
    \/ ImageUpdateDuplicateCheck(p)
    \/ ImageUpdateClearPrimary(p)
    \/ ImageUpdateSet(p)
    \/ ImageUpdateWrite(p)
    \/ ImageUpdateGet(p)

NextTimes ==
    \/ Tick
    \/ AllIdle /\ StartTimes(1)
    \/ \E p \in Procs : StepTimes(p)

SpecTimes == Init /\ [][NextTimes]_vars

(***************************************************************************)
(* Updates and deletes of the two images of an entity, served concurrently *)
(* by the two processes.                                                   *)
(***************************************************************************)
PrimaryImage ==
    ImageIn(NewObjectId(1), "e1", "photo.png", ImageObjectKey("e1", NewObjectId(1)), TRUE, {})
OtherImage ==
    ImageIn(NewObjectId(2), "e1", "logo.png", ImageObjectKey("e1", NewObjectId(2)), FALSE, {})

InitUpdates ==
    /\ now = 0
    /\ attachments_collection = {}
    /\ images_collection = {PrimaryImage, OtherImage}
    /\ bucket = {PrimaryImage.object_key, OtherImage.object_key}
    /\ next_id = 3
    /\ req = [p \in Procs |-> Idle]

StartUpdates(p) ==
    \/ \E id \in {PrimaryImage.id, OtherImage.id},
          f \in {{}, {"logo.png"}, {"scan.jpeg"}},
          pr \in {{}, {TRUE}, {FALSE}} : StartImageUpdate(p, id, f, pr)
    \/ \E id \in {PrimaryImage.id, OtherImage.id} : StartImageDelete(p, id)

StepUpdates(p) ==
    \/ ImageUpdateRepoGet(p)
    \/ ImageUpdateDuplicateCheck(p)
    \/ ImageUpdateClearPrimary(p)
    \/ ImageUpdateSet(p)
    \/ ImageUpdateWrite(p)
    \/ ImageUpdateGet(p)
    \/ ImageDeleteObject(p)
    \/ ImageDeleteRow(p)
    \/ Return(p)

NextUpdates == \E p \in Procs : StartUpdates(p) \/ StepUpdates(p)

SpecUpdates == InitUpdates /\ [][NextUpdates]_vars

(***************************************************************************)
(* Image creates and delete_by_entity_id served concurrently, for an       *)
(* entity that already holds one image.                                    *)
(***************************************************************************)
StartDeleteCreate(p) ==
    \/ \E e \in EntityIds, u \in Uploads : StartImageCreate(p, e, u)
    \/ \E e \in EntityIds : StartImageDeleteByEntityId(p, e)

StepDeleteCreate(p) ==
    \/ ImageCreateCount(p)
    \/ ImageCreateUpload(p)
    \/ ImageCreateRepoCount(p)
    \/ ImageCreateDuplicateCheck(p)
    \/ ImageCreateInsert(p)
    \/ ImageCreateGet(p)
    \/ ImageDeleteManyObjects(p)
    \/ ImageDeleteManyRows(p)
    \/ Return(p)

NextDeleteCreate == \E p \in Procs : StartDeleteCreate(p) \/ StepDeleteCreate(p)

SpecDeleteCreate == InitCreates /\ [][NextDeleteCreate]_vars

(***************************************************************************)
(* ImageStore.delete_many on lists of every length up to MaxKeys: the loop  *)
(* over the batches, one delete_objects request in each turn.              *)
(***************************************************************************)
MaxKeys == 2001
batch_size == 1000

Min(a, b) == IF a < b THEN a ELSE b

\* the list of the object keys of n images of an entity
KeyList(n) == [k \in 1..n |-> ImageObjectKey("e1", NewObjectId(k))]

\* a slice that runs one key into the next batch
ImageStore_delete_many_batch_overlapping(object_keys, i) ==
    SubSeq(object_keys, i + 1, Min(i + batch_size + 1, Len(object_keys)))

\* batch = object_keys[i : i + batch_size]
ImageStore_delete_many_batch(object_keys, i) ==
    SubSeq(object_keys, i + 1, Min(i + batch_size, Len(object_keys)))

InitDeleteMany ==
    /\ now = 0
    /\ attachments_collection = {}
    /\ images_collection = {}
    /\ next_id = 1
    /\ \E n \in 0..MaxKeys :
          /\ bucket = KeySet(KeyList(n)) \cup {StoredImage.object_key}
          /\ req = [p \in Procs |->
                      IF p = 1
                      THEN [Idle EXCEPT !.op = "image_store.delete_many",
                                        !.pc = "s_delete_many",
                                        !.keys = KeyList(n)]
                      ELSE Idle]

\* one turn of `for i in range(0, len(object_keys), batch_size)`
ImageStoreDeleteManyBatch(p) ==
    /\ req[p].pc = "s_delete_many"
    /\ req[p].count < Len(req[p].keys)
    /\ LET batch == ImageStore_delete_many_batch(req[p].keys, req[p].count)
       IN  /\ bucket' = bucket \ KeySet(batch)
           /\ req' = [req EXCEPT ![p] = [Call(req[p], "s3.delete_objects") EXCEPT
                         !.batches = Append(@, batch),
                         !.count = @ + batch_size]]
    /\ UNCHANGED <<attachments_collection, images_collection, next_id, now>>

\* the range is exhausted: delete_many returns
ImageStoreDeleteManyReturn(p) ==
    /\ req[p].pc = "s_delete_many"
    /\ req[p].count >= Len(req[p].keys)
    /\ req' = [req EXCEPT ![p] = Finish(req[p], {})]
    /\ UNCHANGED <<attachments_collection, images_collection, bucket, next_id, now>>

NextDeleteMany ==
    \E p \in Procs : ImageStoreDeleteManyBatch(p) \/ ImageStoreDeleteManyReturn(p)

SpecDeleteMany == InitDeleteMany /\ [][NextDeleteMany]_vars

(***************************************************************************)
(* Properties.                                                             *)
(***************************************************************************)
Requests == {req[p] : p \in Procs}
Done(r, op) == r.op = op /\ r.pc = "done"
PrimaryImages(entity_id) ==
    {row \in images_collection : row.entity_id = entity_id /\ row.primary = TRUE}

\* C1: with the requests served one at a time, an entity never has more than
\* one primary image, and an update that has set primary on an image that was
\* not primary leaves that image the only primary image of its entity.
C1_AtMostOnePrimary ==
    /\ \A e \in EntityIds : Cardinality(PrimaryImages(e)) <= 1
    /\ \A r \in Requests :
          (Done(r, "image.update") /\ r.result = "OK" /\ r.update_primary)
            => PrimaryImages(TheRow(r.doc).entity_id) = {TheRow(r.doc)}

\* an update has made an image primary and cleared the flag of another image
C1_Witness ==
    \E r \in Requests :
        /\ Done(r, "image.update") /\ r.result = "OK"
        /\ r.update_primary /\ r.modified_count = 1
        /\ \E row \in images_collection :
              /\ row.id # r.id
              /\ row.entity_id = TheRow(r.doc).entity_id
              /\ row.primary = FALSE


(***************************************************************************)
(* Creates: duplicates and quota.                                          *)
(***************************************************************************)
Collection(r) ==
    IF r.op \in {"attachment.create", "attachment.update", "attachment.delete",
                 "attachment.get", "attachment.list", "attachment.delete_by_entity_id"}
    THEN attachments_collection ELSE images_collection
UploadLimit(r) ==
    IF r.op = "attachment.create" THEN attachment_upload_limit ELSE image_upload_limit
DoneCreates == {r \in Requests : Done(r, "attachment.create") \/ Done(r, "image.create")}

\* the stored records of the entity of r, other than the one r creates
\* or updates, that have the file name / the code of the file name f
OthersNamed(r, f) ==
    {row \in Collection(r) : row.entity_id = r.entity_id /\ row.id # r.id /\ row.file_name = f}
OthersCoded(r, f) ==
    {row \in Collection(r) :
        row.entity_id = r.entity_id /\ row.id # r.id /\ row.code = generate_code(f)}
Inserted(r) == {row \in Collection(r) : row.id = r.id}

\* what a create validates of its own input, apart from the entity id
WellFormedUpload(r) ==
    IF r.op = "attachment.create"
    THEN Lower(Suffix(r.file_name)) \in attachment_allowed_file_extensions
    ELSE GuessType(r.file_name) = r.content_type /\ r.valid_image

C3_UploadQuota ==
    \A r \in Requests :
        (Done(r, "attachment.create") /\ ObjectIdIsValid(r.entity_id)) =>
          /\ r.count = Cardinality({row \in attachments_collection :
                            row.entity_id = r.entity_id /\ row.id # r.id})
          /\ r.count >= attachment_upload_limit
               => /\ r.result = "UploadLimitReachedError" /\ r.status_code = 422
                  /\ ~Called(r, "s3.generate_presigned_post")
                  /\ ~Called(r, "db.insert_one")
                  /\ ~Called(r, "ObjectId")
                  /\ Inserted(r) = {}
          /\ r.count < attachment_upload_limit
               => r.result # "UploadLimitReachedError"

\* the entity holds exactly the limit and one more create has been rejected
C3_Witness ==
    \E r \in Requests :
        /\ Done(r, "attachment.create")
        /\ r.result = "UploadLimitReachedError"
        /\ Cardinality({row \in attachments_collection : row.entity_id = r.entity_id})
             = attachment_upload_limit

(***************************************************************************)
(* Uniqueness of file names within an entity.                              *)
(***************************************************************************)
UniqueFileNames(collection) ==
    \A a \in collection, b \in collection :
        (a.entity_id = b.entity_id /\ a.file_name = b.file_name) => a.id = b.id

DeleteOps == {"attachment.delete", "image.delete"}
DeleteByEntityOps == {"attachment.delete_by_entity_id", "image.delete_by_entity_id"}

\* the outcome of a get of the record of r, made in the current state
GetAfter(r) ==
    IF r.op = "attachment.delete"
    THEN AttachmentService_get([Idle EXCEPT !.op = "attachment.get", !.id = r.id],
                               find_one(attachments_collection, r.id))
    ELSE ImageService_get([Idle EXCEPT !.op = "image.get", !.id = r.id],
                          find_one(images_collection, r.id))

\* C5: when a delete of an id has succeeded, the object key of the record is
\* not in the bucket, the collection has no row of that id, and a get of the
\* id fails with MissingRecordError (404).
C5_DeleteRemoves ==
    \A r \in Requests :
        (r.op \in DeleteOps /\ r.pc = "done" /\ r.result = "OK") =>
          /\ r.object_key = TheRow(r.stored).object_key
          /\ r.object_key \notin bucket
          /\ find_one(Collection(r), r.id) = {}
          /\ GetAfter(r).result = "MissingRecordError"
          /\ GetAfter(r).status_code = 404

\* an image, whose object was in the bucket, has been deleted
C5_Witness ==
    \E r \in Requests :
        /\ Done(r, "image.delete") /\ r.result = "OK"
        /\ r.object_key = ImageObjectKey(TheRow(r.stored).entity_id, r.id)

Before(r, first, second) ==
    0 < FirstCall(r, first) /\ FirstCall(r, first) < FirstCall(r, second)

\* the delete call to the bucket comes before the delete call to the collection
C6_CallOrder ==
    \A r \in Requests :
        /\ (r.op \in DeleteOps /\ Called(r, "db.delete_one"))
             => Before(r, "s3.delete_object", "db.delete_one")
        /\ (r.op \in DeleteByEntityOps /\ Called(r, "db.delete_many"))
             => Before(r, "s3.delete_objects", "db.delete_many")
        /\ (r.op \in DeleteOps /\ r.stored # {} /\ find_one(Collection(r), r.id) = {})
             => r.object_key \notin bucket
        /\ r.op \in DeleteByEntityOps
             => \A k \in KeySet(r.keys) :
                   (\A row \in Collection(r) : row.object_key # k) => k \notin bucket

\* the rows a step removes from a collection
Removed(collection, collection_after) ==
    {row \in collection : \A row2 \in collection_after : row2.id # row.id}

\* a step that removes rows finds their object keys already gone from the bucket
C6_RowsAfterObjects ==
    \A row \in Removed(attachments_collection, attachments_collection')
               \cup Removed(images_collection, images_collection') :
        row.object_key \notin bucket /\ row.object_key \notin bucket'

\* C6: in delete and in delete_by_entity_id the objects are deleted from the
\* bucket before the rows are deleted from the collection: in no state of the
\* operation is a row gone while its object key is still in the bucket.
C6_ObjectBeforeMetadata == []C6_CallOrder /\ [][C6_RowsAfterObjects]_vars

\* between the two steps of an image delete: the object is gone, the row is not
C6_Witness ==
    \E r \in Requests :
        /\ r.op = "image.delete" /\ r.pc = "i_delete_row"
        /\ Called(r, "s3.delete_object")
        /\ r.object_key \notin bucket
        /\ find_one(images_collection, r.id) # {}

(***************************************************************************)
(* Order of the steps of a create.                                         *)
(***************************************************************************)
ObjectStoreCalls ==
    {"s3.generate_presigned_post", "s3.upload_fileobj", "s3.delete_object",
     "s3.delete_objects", "s3.generate_presigned_url"}

\* C7: a create generates the id before it calls the object store, makes its
\* object-store step (presigned POST; thumbnail, then upload) before the
\* insert, and inserts a row whose id is the one embedded in its object key.
C7_CreateOrder ==
    \A r \in Requests :
        /\ r.op \in {"attachment.create", "image.create"}
             => /\ \A i \in 1..Len(r.calls) :
                      r.calls[i] \in ObjectStoreCalls
                        => 0 < FirstCall(r, "ObjectId") /\ FirstCall(r, "ObjectId") < i
                /\ Called(r, "db.insert_one")
                     => /\ Inserted(r) # {}
                        /\ \A row \in Inserted(r) :
                              /\ row.entity_id = r.entity_id
                              /\ row.object_key = r.object_key
        /\ r.op = "attachment.create"
             => /\ Called(r, "db.insert_one")
                     => Before(r, "s3.generate_presigned_post", "db.insert_one")
                /\ Called(r, "s3.generate_presigned_post")
                     => r.object_key = AttachmentObjectKey(r.entity_id, r.id)
        /\ r.op = "image.create"
             => /\ Called(r, "db.insert_one")
                     => Before(r, "s3.upload_fileobj", "db.insert_one")
                /\ Called(r, "s3.upload_fileobj")
                     => /\ Before(r, "generate_thumbnail", "s3.upload_fileobj")
                        /\ r.object_key = ImageObjectKey(r.entity_id, r.id)

\* an attachment has been created
C7_Witness ==
    \E r \in Requests :
        /\ Done(r, "attachment.create") /\ r.result = "OK"
        /\ \E row \in attachments_collection :
              row.id = r.id /\ row.object_key = AttachmentObjectKey(r.entity_id, r.id)

\* C8: a create whose repository step fails after the object-store step
\* returns the error, calls no delete on the bucket, and leaves no row that
\* refers to the object key; the object an image create uploaded stays in
\* the bucket.
C8_NoRollback ==
    \A r \in DoneCreates :
        (r.result # "OK"
           /\ (Called(r, "s3.upload_fileobj") \/ Called(r, "s3.generate_presigned_post")))
          => /\ \/ r.result = "DuplicateRecordError" /\ r.status_code = 409
                \/ r.result = "UploadLimitReachedError" /\ r.status_code = 422
             /\ ~Called(r, "s3.delete_object") /\ ~Called(r, "s3.delete_objects")
             /\ ~Called(r, "db.insert_one")
             /\ \A row \in Collection(r) : row.object_key # r.object_key
             /\ r.op = "image.create"
                  => r.object_key = ImageObjectKey(r.entity_id, r.id)
                       /\ r.object_key \in bucket

\* an image create has been rejected as a duplicate after its upload
C8_Witness ==
    \E r \in Requests :
        /\ Done(r, "image.create") /\ r.result = "DuplicateRecordError"
        /\ Called(r, "s3.upload_fileobj")
        /\ r.object_key \in bucket

(***************************************************************************)
(* Validation errors of a create.                                          *)
(***************************************************************************)
\* InvalidFilenameExtension is what ImageService.create raises on a file
\* name whose type differs from the content type
ValidationErrors ==
    {"InvalidObjectIdError", "UploadLimitReachedError", "UnsupportedFileExtensionException",
     "FileTypeMismatchException", "InvalidFilenameExtension", "InvalidImageFileError"}

NoStoreOperation(r) ==
    /\ \A i \in 1..Len(r.calls) : r.calls[i] \notin ObjectStoreCalls
    /\ ~Called(r, "db.insert_one")
    /\ Inserted(r) = {}

InvalidIdFailsFirst(r) ==
    r.result = "InvalidObjectIdError" => r.calls = <<"CustomObjectId">>

CountQueries(r) == Cardinality({i \in 1..Len(r.calls) : r.calls[i] = "db.count_documents"})

ObjectKeysDerived ==
    /\ \A row \in attachments_collection :
          row.object_key = AttachmentObjectKey(row.entity_id, row.id)
    /\ \A row \in images_collection :
          row.object_key = ImageObjectKey(row.entity_id, row.id)

\* a step keeps the entity_id and the object_key of every record that stays
KeysKept(collection, collection_after) ==
    \A row \in collection, row2 \in collection_after :
        row2.id = row.id
          => row2.entity_id = row.entity_id /\ row2.object_key = row.object_key

C11_UpdateKeepsKeys ==
    /\ KeysKept(attachments_collection, attachments_collection')
    /\ KeysKept(images_collection, images_collection')

\* C11: every stored attachment has the object key attachments/{entity_id}/{id}
\* and every stored image images/{entity_id}/{id}, of its own entity_id and id;
\* no step, an update in particular, changes the id, entity_id or object_key
\* of a stored record.
C11_ObjectKeyRoundTrip == []ObjectKeysDerived /\ [][C11_UpdateKeepsKeys]_vars

\* an update has renamed an attachment, which still carries its derived key
C11_Witness ==
    \E r \in Requests :
        /\ Done(r, "attachment.update") /\ r.result = "OK"
        /\ r.patch_file_name = {"lab notes.TXT"}
        /\ \E row \in attachments_collection :
              /\ row.id = r.id /\ row.file_name = "lab notes.TXT"
              /\ row.object_key = AttachmentObjectKey(row.entity_id, row.id)

(***************************************************************************)
(* What a reader sees while a set-primary update runs.                     *)
(***************************************************************************)
\* the images a list of the entity with primary = true returns in this state
PrimaryObserved(entity_id) ==
    ImageRepo_list(Idle, {entity_id}, {TRUE}, images_collection).returned

\* C12 as stated: while an update that sets primary is in progress, and after
\* it has failed between its two writes, a reader sees neither two primary
\* images of the entity nor, for an entity that had a primary image, none.
C12_Original ==
    \A r \in Requests :
        (r.op = "image.update" /\ r.update_primary /\ r.doc # {})
          => LET observed == PrimaryObserved(TheRow(r.doc).entity_id)
             IN  /\ Cardinality(observed) <= 1
                 /\ r.modified_count > 0 => observed # {}

(***************************************************************************)
(* delete_by_entity_id.                                                    *)
(***************************************************************************)
NoRecords(r) == \A row \in Collection(r) : row.entity_id # r.entity_id

\* the same delete_by_entity_id, run once more in the current state
Again(r) ==
    LET request == [Idle EXCEPT !.op = r.op, !.entity_id = r.entity_id]
    IN  IF r.op = "attachment.delete_by_entity_id"
        THEN AttachmentService_delete_by_entity_id(request, attachments_collection)
        ELSE ImageService_delete_by_entity_id(request, images_collection)

NoDeleteIssued(r) ==
    /\ ~Called(r, "s3.delete_objects") /\ ~Called(r, "s3.delete_object")
    /\ ~Called(r, "db.delete_many") /\ ~Called(r, "db.delete_one")

\* a finished delete_by_entity_id that found nothing has deleted nothing, and
\* after any finished one a second run finds nothing and ends the same way
C13_SecondRunIsNoOp ==
    \A r \in Requests :
        (r.op \in DeleteByEntityOps /\ r.pc = "done") =>
          /\ r.result = "OK"
          /\ r.keys = <<>> => NoDeleteIssued(r)
          /\ NoRecords(r)
          /\ Again(r).pc = "done" /\ Again(r).result = r.result
          /\ Again(r).keys = <<>> /\ NoDeleteIssued(Again(r))

\* a delete_by_entity_id for an entity without records, or for an invalid
\* entity id, ends in its first step, without error and with the stores as
\* they were
C13_NothingToDelete ==
    \A p \in Procs :
        (req[p].pc = "idle" /\ req'[p].op \in DeleteByEntityOps /\ NoRecords(req'[p]))
          => /\ req'[p].pc = "done" /\ req'[p].result = "OK"
             /\ req'[p].keys = <<>> /\ NoDeleteIssued(req'[p])
             /\ attachments_collection' = attachments_collection
             /\ images_collection' = images_collection
             /\ bucket' = bucket

\* C13: delete_by_entity_id for an entity without stored records, or for an
\* invalid entity id, completes without error, issues no delete to the
\* bucket or the collection and leaves both unchanged; a second run for the
\* same entity id has the outcome and leaves the state of the first.
C13_DeleteByEntityIdempotent == []C13_SecondRunIsNoOp /\ [][C13_NothingToDelete]_vars

\* images are stored and a delete_by_entity_id for an invalid entity id, or
\* for an entity without images, has returned
C13_Witness ==
    \E r \in Requests :
        /\ Done(r, "image.delete_by_entity_id") /\ r.result = "OK"
        /\ r.keys = <<>> /\ r.calls = <<>>
        /\ r.entity_id \in InvalidIds
        /\ images_collection # {} /\ bucket # {}

OfOthers(collection, entity_id) == {row \in collection : row.entity_id # entity_id}

\* after a finished delete_by_entity_id the entity has no record left and the
\* keys of the records it had are not in the bucket
C14_EntityCleared ==
    \A r \in Requests :
        (r.op \in DeleteByEntityOps /\ r.pc = "done")
          => /\ NoRecords(r)
             /\ \A k \in KeySet(r.keys) : k \notin bucket

\* a step of a delete_by_entity_id changes no record of another entity, no
\* record of the other kind and no object but those of the records it listed
C14_OthersUnchanged ==
    \A p \in Procs :
        (req[p].op \in DeleteByEntityOps /\ req[p].pc # "done")
          => /\ OfOthers(attachments_collection', req[p].entity_id)
                  = OfOthers(attachments_collection, req[p].entity_id)
             /\ OfOthers(images_collection', req[p].entity_id)
                  = OfOthers(images_collection, req[p].entity_id)
             /\ req[p].op = "attachment.delete_by_entity_id"
                  => images_collection' = images_collection
             /\ req[p].op = "image.delete_by_entity_id"
                  => attachments_collection' = attachments_collection
             /\ bucket' \subseteq bucket
             /\ (bucket \ bucket') \subseteq KeySet(req[p].keys)

\* C14: when delete_by_entity_id(E) has completed with no other request
\* running, no record of E remains and no object key of those records is in
\* the bucket, while the records and the objects of every other entity are
\* as they were.
C14_DeleteByEntityFrame == []C14_EntityCleared /\ [][C14_OthersUnchanged]_vars

\* the images of one entity have been deleted while another entity keeps its
\* image and its object
C14_Witness ==
    \E r \in Requests :
        /\ Done(r, "image.delete_by_entity_id") /\ r.keys # <<>>
        /\ Called(r, "db.delete_many")
        /\ \E row \in images_collection :
              row.entity_id # r.entity_id /\ row.object_key \in bucket

(***************************************************************************)
(* get, update and delete of an id that is malformed or not stored.        *)
(***************************************************************************)
ByIdOps ==
    {"attachment.get", "attachment.update", "attachment.delete",
     "image.get", "image.update", "image.delete"}

DocumentStoreWrites ==
    {"db.insert_one", "db.update_one", "db.bulk_write", "db.delete_one", "db.delete_many"}

NotFoundOutcome(r) ==
    /\ r.pc = "done" /\ r.status_code = 404
    /\ IF ObjectIdIsValid(r.id)
       THEN r.result = "MissingRecordError" /\ r.calls = <<"db.find_one">>
       ELSE r.result = "InvalidObjectIdError" /\ r.calls = <<>>

\* C15: get, update and delete of an id that is malformed or matches no
\* stored record fail with a not-found outcome, InvalidObjectIdError with
\* status 404 for a malformed id and MissingRecordError for an absent one;
\* they make no presigned URL, delete no object and leave the collections
\* unchanged, and for a malformed id they do not query the collection.
C15_NotFound ==
    \A p \in Procs :
        (req[p].pc = "idle" /\ req'[p].op \in ByIdOps
           /\ find_one(Collection(req'[p]), req'[p].id) = {})
          => /\ NotFoundOutcome(req'[p])
             /\ \A i \in 1..Len(req'[p].calls) :
                   req'[p].calls[i] \notin ObjectStoreCalls \cup DocumentStoreWrites
             /\ attachments_collection' = attachments_collection
             /\ images_collection' = images_collection
             /\ bucket' = bucket

C15_NotFoundLeavesStores == [][C15_NotFound]_vars

\* images are stored and a get of a malformed id has failed
C15_Witness ==
    \E r \in Requests :
        /\ Done(r, "image.get") /\ r.id \in InvalidIds
        /\ r.result = "InvalidObjectIdError" /\ r.status_code = 404
        /\ images_collection # {}

(***************************************************************************)
(* Updates: type of the file name, duplicates, primary.                    *)
(***************************************************************************)
UpdateOps == {"attachment.update", "image.update"}

\* the exception each service raises when the types differ
FileTypeMismatch(r) ==
    IF r.op = "attachment.update" THEN "FileTypeMismatchException"
    ELSE "InvalidFilenameExtension"

\* C16: an update whose file name has an inferred type other than that of the
\* stored file name fails with the file type mismatch error (422) in the
\* service, before the repository update is called, and the collections stay
\* as they were; for attachments and for images.
C16_TypeMismatch ==
    \A p \in Procs :
        (req[p].pc = "idle" /\ req'[p].op \in UpdateOps
           /\ req'[p].patch_file_name # {}
           /\ \E row \in find_one(Collection(req'[p]), req'[p].id) :
                 GuessType(TheRow(req'[p].patch_file_name)) # GuessType(row.file_name))
          => /\ req'[p].pc = "done"
             /\ req'[p].result = FileTypeMismatch(req'[p])
             /\ req'[p].status_code = 422
             /\ req'[p].calls = <<"db.find_one">>
             /\ attachments_collection' = attachments_collection
             /\ images_collection' = images_collection

Siblings(r) ==
    {other \in Collection(r) :
        \E row \in find_one(Collection(r), r.id) :
            other.id # row.id /\ other.entity_id = row.entity_id}

\* the patch of r carries a file name that another record of the entity has
NameTaken(r) ==
    /\ r.patch_file_name # {}
    /\ \E other \in Siblings(r) : other.file_name = TheRow(r.patch_file_name)

NothingWritten(r) ==
    \A i \in 1..Len(r.calls) : r.calls[i] \notin DocumentStoreWrites

DoneUpdates == {r \in Requests : r.op \in UpdateOps /\ r.pc = "done"}

DoneImageCreates == {r \in Requests : Done(r, "image.create")}

\* the declared content type of r is the one guessed from its file name
TypesAgree(r) == GuessType(r.file_name) = r.content_type

\* r came to the type check: its entity_id is valid and the quota has room
ReachedTypeCheck(r) ==
    /\ Called(r, "db.count_documents")
    /\ r.result # "UploadLimitReachedError" \/ Called(r, "ObjectId")

NoImageSideEffects(r) ==
    \A i \in 1..Len(r.calls) :
        r.calls[i] \notin {"ObjectId", "generate_thumbnail", "s3.upload_fileobj", "db.insert_one"}

C19_Original ==
    \A r \in DoneImageCreates :
        (/\ Lower(Suffix(r.file_name)) \notin image_allowed_file_extensions
         /\ ReachedTypeCheck(r))
          => /\ r.result = "UnsupportedFileExtensionException"
             /\ r.status_code = 415
             /\ NoImageSideEffects(r)

\* the writes r has issued to the document store, in order
WritesOf(r) == SelectSeq(r.calls, LAMBDA name : name \in DocumentStoreWrites)

\* the service decides on the exclusivity step from the patch and the stored image
C20_StepRequested ==
    \A p \in Procs :
        (/\ req[p].pc = "idle"
         /\ req'[p].op = "image.update"
         /\ req'[p].pc = "i_update_repo_get")
          => \A row \in find_one(images_collection, req'[p].id) :
                req'[p].update_primary
                  <=> /\ req'[p].patch_primary = {TRUE}
                      /\ row.primary = FALSE

\* a step of an update without the exclusivity step leaves the other images alone
C20_OthersKept ==
    \A p \in Procs :
        (/\ req[p].op = "image.update"
         /\ ~req[p].update_primary)
          => /\ \A row \in images_collection :
                   row.id # req[p].id => row \in images_collection'
             /\ \A row \in images_collection' :
                   row.id # req[p].id => row \in images_collection

\* the writes of an update: the bulk write when the step was requested, else
\* the one update_one of the target image
C20_SingleWrite ==
    \A r \in Requests :
        r.op = "image.update"
          => /\ Len(WritesOf(r)) <= 1
             /\ Called(r, "db.bulk_write") => r.update_primary
             /\ Called(r, "db.update_one") => ~r.update_primary
             /\ (r.pc = "done" /\ r.result = "OK")
                  => WritesOf(r) = IF r.update_primary THEN <<"db.bulk_write">>
                                   ELSE <<"db.update_one">>

\* C20: an image update requests the primary exclusivity step exactly when its
\* patch sets primary to true and the stored image is not primary; every other
\* update issues one update_one of the target image and no bulk write, and
\* none of its steps changes, adds or removes a record of another image.
C20_ExclusivityOnlyWhenNeeded ==
    /\ []C20_SingleWrite
    /\ [][C20_StepRequested /\ C20_OthersKept]_vars

\* an update that sets primary on the image that is primary already was done
\* with one update_one while another image is stored
C20_Witness ==
    \E r \in Requests :
        /\ Done(r, "image.update") /\ r.result = "OK"
        /\ r.patch_primary = {TRUE} /\ ~r.update_primary
        /\ WritesOf(r) = <<"db.update_one">>
        /\ \E row \in images_collection : row.id # r.id

CreateOps == {"attachment.create", "image.create"}

\* the requests that were given a malformed id and have returned
DoneWithInvalidId(ops) ==
    {r \in Requests :
        /\ r.op \in ops /\ r.pc = "done"
        /\ IF r.op \in CreateOps \cup DeleteByEntityOps
           THEN r.entity_id \in InvalidIds
           ELSE r.id \in InvalidIds}

RECURSIVE Concat(_)
Concat(lists) == IF lists = <<>> THEN <<>> ELSE Head(lists) \o Concat(Tail(lists))

DeleteManyCalls == {r \in Requests : r.op = "image_store.delete_many"}

\* C22: delete_many on a list of n keys issues ceil(n / batch_size)
\* delete_objects requests, each with at least one and at most batch_size
\* keys, that together carry the list, every key once and in the order of the
\* list, so that none of the keys is left in the bucket; for the empty list
\* it issues no request.
C22_DeleteManyBatches ==
    \A r \in DeleteManyCalls :
        LET n == Len(r.keys) IN
        /\ r.calls = [i \in 1..Len(r.batches) |-> "s3.delete_objects"]
        /\ \A i \in 1..Len(r.batches) :
              Len(r.batches[i]) >= 1 /\ Len(r.batches[i]) <= batch_size
        /\ Concat(r.batches) = SubSeq(r.keys, 1, Min(r.count, n))
        /\ r.pc = "done"
             => /\ Len(r.batches) = (n + batch_size - 1) \div batch_size
                /\ Concat(r.batches) = r.keys
                /\ n = 0 => r.calls = <<>>
                /\ bucket = {StoredImage.object_key}

\* a list of one key more than two batches hold was deleted in three requests
C22_Witness ==
    \E r \in DeleteManyCalls :
        /\ r.pc = "done"
        /\ Len(r.keys) = 2 * batch_size + 1
        /\ Len(r.batches) = 3 /\ Len(r.batches[3]) = 1

\* the rows of both collections
Records == attachments_collection \cup images_collection
RecordsAfter == attachments_collection' \cup images_collection'

\* a step leaves the created_time of every record it keeps as it was
CreatedTimeKept ==
    \A row \in Records : \A after \in RecordsAfter :
        (after.id = row.id /\ after.object_key = row.object_key)
          => after.created_time = row.created_time

\* a step that changes a field of a record sets its modified_time to the time
\* of the step
ModifiedTimeSet ==
    \A row \in Records : \A after \in RecordsAfter :
        (after.id = row.id /\ after.object_key = row.object_key /\ after # row)
          => after.modified_time = now

\* C23 as stated: created_time is never changed after the creation, and every
\* step that changes a stored field of a record, the clearing of the primary
\* flag of the other images included, sets the modified_time of that record.
C23_Original == [][CreatedTimeKept /\ ModifiedTimeSet]_vars

InsertSteps == {"a_create_insert", "i_create_insert"}

\* the rows of the kind of r that have its entity and its file name
SameName(r, collection) ==
    {row \in collection : row.entity_id = r.entity_id /\ row.file_name = r.file_name}

\* the insert of a create that has passed the duplicate check adds its row,
\* whatever rows of that name other creates have inserted since the check
InsertAfterCheck ==
    \A p \in Procs :
        (req[p].pc \in InsertSteps /\ req'[p].pc # req[p].pc)
          => IF req[p].op = "attachment.create"
             THEN /\ find_one(attachments_collection', req[p].id) # {}
                  /\ Cardinality(SameName(req[p], attachments_collection'))
                       = Cardinality(SameName(req[p], attachments_collection)) + 1
             ELSE /\ find_one(images_collection', req[p].id) # {}
                  /\ Cardinality(SameName(req[p], images_collection'))
                       = Cardinality(SameName(req[p], images_collection)) + 1

\* a create that has inserted its row succeeds
InsertedSucceeds ==
    \A r \in DoneCreates : Called(r, "db.insert_one") => r.result = "OK"

\* C24: creates are not serialised: the insert of a create that has passed
\* the duplicate check is made without a further check, so that it adds its
\* row also when a concurrent create has inserted a row of the same entity and
\* file name since, and both creates succeed.
C24_CreatesNotSerialised == []InsertedSucceeds /\ [][InsertAfterCheck]_vars

\* two creates of one entity and file name have both succeeded and both rows
\* are stored
C24_Witness ==
    /\ req[1].pc = "done" /\ req[2].pc = "done"
    /\ req[1].op = req[2].op /\ req[1].op \in CreateOps
    /\ req[1].entity_id = req[2].entity_id /\ req[1].file_name = req[2].file_name
    /\ req[1].result = "OK" /\ req[2].result = "OK"
    /\ req[1].id # req[2].id
    /\ Cardinality(SameName(req[1], Collection(req[1]))) >= 2

\* the second write of a set-primary update sets the target image and no
\* other: a primary flag that a concurrent update has set since the first
\* write stays
SetOwnOnly ==
    \A p \in Procs :
        (req[p].pc = "i_update_set" /\ req'[p].pc = "i_update_get")
          => /\ \A row \in images_collection' :
                  row.id = req[p].id => row.primary = TRUE
             /\ \A row \in images_collection :
                  row.id # req[p].id => row \in images_collection'

\* C25: set-primary updates are not serialised: between the write that clears
\* the other primary images and the write that sets the target, a concurrent
\* update can do its own writes, and the second write sets the target alone
\* and leaves a primary flag set in between as it is.
C25_SetPrimaryNotSerialised == [][SetOwnOnly]_vars

\* two set-primary updates of the two images of an entity have both succeeded
\* and both images are primary
C25_Witness ==
    /\ \A p \in Procs :
          /\ Done(req[p], "image.update") /\ req[p].result = "OK"
          /\ req[p].patch_primary = {TRUE} /\ req[p].update_primary
    /\ req[1].id # req[2].id
    /\ Cardinality(PrimaryImages("e1")) = 2

\* C26 as stated: in every reachable state, those reached by concurrent
\* creates included, an entity holds at most attachment_upload_limit
\* attachments and at most image_upload_limit images.
C26_Original ==
    \A e \in EntityIds :
        /\ count_documents(attachments_collection, e) <= attachment_upload_limit
        /\ count_documents(images_collection, e) <= image_upload_limit

\* a step keeps the primary flag of every image it keeps
PrimaryKept ==
    \A row \in images_collection : \A after \in images_collection' :
        after.id = row.id => after.primary = row.primary

\* C27 as stated: no step of an image update whose patch does not set primary
\* changes the stored primary flag of an image, whatever the other process
\* has written since the update read the stored image.
C27_Original ==
    [][\A p \in Procs :
          (/\ req[p].op = "image.update" /\ req[p].patch_primary = {}
           /\ req'[p] # req[p])
            => PrimaryKept]_vars

UpdateErrors ==
    {"InvalidObjectIdError", "MissingRecordError", "DuplicateRecordError",
     "InvalidFilenameExtension"}

\* C28 as stated: an image update that returns an error has written to no
\* row, the rows of the other images of the entity included.
C28_Original ==
    \A r \in Requests :
        (Done(r, "image.update") /\ r.result \in UpdateErrors)
          => NothingWritten(r) /\ r.modified_count = 0

\* C29 as stated: every row that a step of delete_by_entity_id removes has its
\* object key out of the bucket, also the row of an image that a concurrent
\* create inserted after the delete listed the images of the entity.
C29_Original ==
    [][\A p \in Procs :
          (req[p].op = "image.delete_by_entity_id" /\ req'[p] # req[p])
            => \A row \in images_collection \ images_collection' :
                  row.object_key \notin bucket']_vars

\* C30: the upload of an image create sends the bytes of the file from the
\* first to the last, the thumbnail generator having moved the stream back to
\* position 0 after reading it; a create that fails with InvalidImageFileError
\* has generated no upload and no insert.
C30_UploadFromStart ==
    \A r \in Requests :
        r.op = "image.create"
          => /\ Called(r, "s3.upload_fileobj")
                  => /\ Before(r, "generate_thumbnail", "s3.upload_fileobj")
                     /\ r.sent = FileBytes
             /\ r.result = "InvalidImageFileError"
                  => /\ r.status_code = 422
                     /\ ~Called(r, "s3.upload_fileobj") /\ r.sent = <<>>
                     /\ ~Called(r, "db.insert_one") /\ Inserted(r) = {}

\* an image was created after its thumbnail was generated and the whole file
\* uploaded
C30_Witness ==
    \E r \in DoneImageCreates :
        /\ r.result = "OK"
        /\ Called(r, "generate_thumbnail")
        /\ r.sent = FileBytes /\ Len(r.sent) = FileLength
        /\ r.object_key \in bucket

====
